---- MODULE Spec2Model ----
(***************************************************************************)
(* Watermark trimming and strip compositing of ChapBuddy.                  *)
(*                                                                         *)
(* Trimming: watermark_trimmer.trim_watermark, the GUI copy                *)
(* main._trim_watermark, the template matcher _detect_template_watermark   *)
(* and the boundary detector _detect_watermark_opencv.  An image is its    *)
(* height and width; what cv2 computes on its pixels (the correlation peak *)
(* of a template in a band, the value each sub-detector reports for a      *)
(* band) is an input drawn from the values cv2 can return.  A returned     *)
(* image is either the input object ("same") or the rows [top, bottom) of  *)
(* the input ("crop").                                                     *)
(*                                                                         *)
(* Compositing: bot.stitch_images and bot.stitch_images_fallback behind    *)
(* the download loop of process_chapter, and main.process_images with      *)
(* main._split_image.  The images that reach the compositor are the        *)
(* trimmer's outputs, given by their size and by whether their pixel data  *)
(* can be decoded.                                                         *)
(***************************************************************************)
EXTENDS Integers, Sequences, FiniteSets, TLC

VARIABLES
    impl,                  \* which copy runs: "watermark_trimmer" or "main"
    height, width,         \* img_cv.shape[:2]
    pc,                    \* position in trim_watermark / the matcher harness
    template_top_trim, template_bottom_trim,
    top_trim, top_confidence, bottom_trim, bottom_confidence,
    crop_top, crop_bottom,
    path,                  \* which method decided: "none", "template", "pattern"
    outcome,               \* "running", "returned" or "raised"
    result,                \* the returned image
    exc,                   \* the step whose exception reached the handler
    templates,             \* watermark_templates of a direct matcher call
    setup_raises,          \* the matcher's set-up (lines 71-85) raises
    match_result,          \* what the direct matcher call returned
    boundaries,            \* <<text_boundary, edge_boundary, color_boundary>>
    detect_raises,         \* the detector's try block raises
    detect_result,         \* what the direct detector call returned
    entry,                 \* the function that is called
    sources,               \* the image files or downloads, in order
    images,                \* the opened (and trimmed) images, in order
    max_height,            \* bot.py: max_height of the stitch call
    smartstitch,           \* whether the SmartStitch import and run succeed
    resized_images,        \* the images after the resize to the target width
    sections,              \* what the stitch call returned
    output_width, output_height,   \* main.py: process_images arguments
    stitched_height,       \* main.py: stitched.height / img.height
    target_height,         \* main.py: _split_image argument
    current_y, parts,      \* main.py: _split_image locals
    saved,                 \* main.py: the files written, in order
    success,               \* main.py: 'success' of the returned dict
    position,              \* 'top' or 'bottom' of a direct sub-detector call
    rows,                  \* the band of a row scanner, one entry per row
    region_height,         \* gray.shape[0] of _detect_text_boundary
    contours,              \* the bounding rectangles cv2 finds in the band
    sub_result,            \* what the direct sub-detector call returned
    expected_total_parts,  \* bot.py process_chapter: detect_total_parts' answer
    part_count,            \* parts followed so far
    current_url,           \* the part to fetch next, 0 for None
    visited_urls,          \* path/part keys already fetched
    processed_chunks,      \* content signatures already seen
    page_requests,         \* requests.get calls made for part pages
    all_images,            \* len(all_images)
    last_processed_chapter, \* state.json: the series' last_processed_chapter
    listed,                \* chapter numbers on the series page
    new_chapters,          \* what get_new_chapters returned last
    chapter_number,        \* chapter_info['number'] of process_single_chapter
    processing_success,    \* bool(images) in process_single_chapter
    upload_success,        \* upload_to_drive's second result
    single_result,         \* how process_single_chapter ended
    runs                   \* process_series calls started

vars == <<impl, height, width, pc, template_top_trim, template_bottom_trim,
          top_trim, top_confidence, bottom_trim, bottom_confidence,
          crop_top, crop_bottom, path, outcome, result, exc,
          templates, setup_raises, match_result,
          boundaries, detect_raises, detect_result,
          entry, sources, images, max_height, smartstitch, resized_images, sections,
          output_width, output_height, stitched_height, target_height,
          current_y, parts, saved, success,
          position, rows, region_height, contours, sub_result,
          expected_total_parts, part_count, current_url, visited_urls,
          processed_chunks, page_requests, all_images,
          last_processed_chapter, listed, new_chapters, chapter_number,
          processing_success, upload_success, single_result, runs>>

trimLocals == <<template_top_trim, template_bottom_trim, top_trim, top_confidence,
                bottom_trim, bottom_confidence, crop_top, crop_bottom>>

matcherVars == <<templates, setup_raises, match_result>>

detectorVars == <<boundaries, detect_raises, detect_result>>

trimVars == <<impl, height, width, trimLocals, path, outcome, result, exc>>

stitchVars == <<entry, sources, images, max_height, smartstitch, resized_images,
                sections>>

guiVars == <<output_width, output_height, stitched_height, target_height,
             current_y, parts, saved, success>>

subVars == <<position, rows, region_height, contours, sub_result>>

partVars == <<expected_total_parts, part_count, current_url, visited_urls,
              processed_chunks, page_requests, all_images>>

seriesVars == <<last_processed_chapter, listed, new_chapters, chapter_number,
                processing_success, upload_success, single_result, runs>>

moreVars == <<subVars, partVars, seriesVars>>

\* everything outside trim_watermark
callVars == <<matcherVars, moreVars, detectorVars, stitchVars, guiVars>>

\* process_chapter's and process_series' variables while something else runs
ChapterIdle ==
    /\ expected_total_parts = 1
    /\ part_count = 0
    /\ current_url = 0
    /\ visited_urls = {}
    /\ processed_chunks = {}
    /\ page_requests = 0
    /\ all_images = 0

SeriesIdle ==
    /\ last_processed_chapter = 0
    /\ listed = {}
    /\ new_chapters = <<>>
    /\ chapter_number = 0
    /\ processing_success = FALSE
    /\ upload_success = FALSE
    /\ single_result = "none"
    /\ runs = 0

\* the direct sub-detector call's variables while something else runs
SubIdle ==
    /\ position = "none"
    /\ rows = <<>>
    /\ region_height = 0
    /\ contours = <<>>
    /\ sub_result = 0

\* the stitchers' and the GUI pipeline's variables while something else runs
StitchGuiIdle ==
    /\ sources = <<>> /\ images = <<>>
    /\ max_height = 0
    /\ smartstitch = "unavailable"
    /\ resized_images = <<>>
    /\ sections = <<>>
    /\ output_width = 0 /\ output_height = 0
    /\ stitched_height = 0 /\ target_height = 0
    /\ current_y = 0 /\ parts = <<>>
    /\ saved = <<>>
    /\ success = FALSE

MoreIdle ==
    /\ ChapterIdle
    /\ SeriesIdle
    /\ SubIdle

\* the compositor's variables while the trimmer or a detector runs
CompositorIdle ==
    /\ entry = "none"
    /\ sources = <<>> /\ images = <<>>
    /\ max_height = 0
    /\ smartstitch = "unavailable"
    /\ resized_images = <<>>
    /\ sections = <<>>
    /\ output_width = 0 /\ output_height = 0
    /\ stitched_height = 0 /\ target_height = 0
    /\ current_y = 0 /\ parts = <<>>
    /\ saved = <<>>
    /\ success = FALSE

-----------------------------------------------------------------------------
(* Bounds and input universes *)

MaxTemplates == 2

ImageWidth == 800

\* image heights: below 3 (empty search bands), not a multiple of 5 or 20
\* (truncation of the retention floors), 1000/1001 (where the pattern path
\* starts to crop), and tall images
Heights == {1, 2, 7, 600, 1000, 1001, 2000, 2500}

MatcherHeights == {1, 2, 7, 600, 2000}

Impls == {"watermark_trimmer", "main"}

Max(a, b) == IF a >= b THEN a ELSE b

Min(a, b) == IF a <= b THEN a ELSE b

\* int(height * c) for c = num/den: Python truncates the float product; for
\* the factors used (0.6, 0.8, 0.9, 0.15, 0.85, 0.2) and every height up to
\* 6000 the float product truncates to the exact floor.
IntFrac(h, num, den) == (h * num) \div den

-----------------------------------------------------------------------------
(* Template matcher: _detect_template_watermark *)

\* threshold = 0.7, in hundredths
threshold == 70

\* cv2.minMaxLoc of cv2.matchTemplate: the peak (hundredths) and its row,
\* or cv2.error
Peak(v, row) == [kind |-> "peak", val |-> v, y |-> row]

CvError == [kind |-> "error", val |-> 0, y |-> 0]

TopResponses == {CvError, Peak(69, 0), Peak(82, 0), Peak(70, 1)}

BottomResponses == {Peak(69, 0), Peak(82, 1), Peak(70, 0), CvError}

\* template.shape[:2] of the templates in the list: small banners, the
\* 80 px synthetic text template as wide as the image, a tall banner, and
\* a banner wider than the image
TemplateShapes ==
    { <<1, 40>>, <<60, 800>>, <<80, ImageWidth>>, <<600, 800>>, <<60, 900>> }

NoneTemplate ==
    [none |-> TRUE, ref_h |-> 0, ref_w |-> 0, top |-> CvError, bottom |-> CvError]

Templates ==
    { [none |-> FALSE, ref_h |-> s[1], ref_w |-> s[2], top |-> t, bottom |-> b] :
        s \in TemplateShapes, t \in TopResponses, b \in BottomResponses }
    \cup {NoneTemplate}

\* (mutant: the band is not limited to a third of the image)
SearchHeightMutant(ref_h, h) == Min(ref_h + 50, h)

\* search_height_top / search_height_bottom = min(ref_h + 50, height // 3)
SearchHeight(ref_h, h) == Min(ref_h + 50, h \div 3)

\* (mutant: the top band is the whole image)
TopAreaRowsMutant(h, sh) == h

\* rows of img_cv[:search_height_top, :]
TopAreaRows(h, sh) == Min(sh, h)

\* rows of img_cv[-search_height_bottom:, :]; a[-0:] is the whole array
BottomAreaRows(h, sh) == IF sh = 0 THEN h ELSE Min(sh, h)

\* max_val >= threshold
Accepts(val) == val >= threshold

\* max_loc[1] + ref_h
TopTrimOf(y, ref_h) == y + ref_h

\* match_from_bottom = search_height_bottom - max_loc[1]
BottomTrimOf(sh, y) == sh - y

\* (mutant: the latest accepted match overwrites the trim)
KeepLargestMutant(acc, v) == v

\* top_trim = max(top_trim, ...), bottom_trim = max(bottom_trim, ...)
KeepLargest(acc, v) == Max(acc, v)

\* "Skip if template is larger than image"
TooLarge(t, h, w) == t.ref_h > h \/ t.ref_w > w

\* the guards of the two matchTemplate calls (lines 105 and 120)
TopSearched(t, h, w) ==
    /\ ~t.none /\ ~TooLarge(t, h, w)
    /\ TopAreaRows(h, SearchHeight(t.ref_h, h)) >= t.ref_h /\ w >= t.ref_w

TopRaised(t, h, w) == TopSearched(t, h, w) /\ t.top.kind = "error"

BottomSearched(t, h, w) ==
    /\ ~t.none /\ ~TooLarge(t, h, w)
    /\ ~TopRaised(t, h, w)          \* "except cv2.error: continue"
    /\ BottomAreaRows(h, SearchHeight(t.ref_h, h)) >= t.ref_h /\ w >= t.ref_w

\* the peak row lies inside the result matrix of matchTemplate; a band that
\* is not searched has no response (written CvError)
ValidTemplate(t, h, w) ==
    /\ IF TopSearched(t, h, w)
       THEN t.top.y <= TopAreaRows(h, SearchHeight(t.ref_h, h)) - t.ref_h
       ELSE t.top = CvError
    /\ IF BottomSearched(t, h, w)
       THEN t.bottom.y <= BottomAreaRows(h, SearchHeight(t.ref_h, h)) - t.ref_h
       ELSE t.bottom = CvError

TemplateSeqs(h, w) ==
    UNION { [1..n -> {t \in Templates : ValidTemplate(t, h, w)}] : n \in 0..MaxTemplates }

\* lines 101-131: the two band searches of a template that fits the image
MatchFitting(t, h, w, acc) ==
    IF TopRaised(t, h, w) THEN acc
    ELSE LET sh == SearchHeight(t.ref_h, h)
             tt == IF TopSearched(t, h, w) /\ t.top.kind = "peak" /\ Accepts(t.top.val)
                   THEN KeepLargest(acc[1], TopTrimOf(t.top.y, t.ref_h))
                   ELSE acc[1]
             bt == IF BottomSearched(t, h, w) /\ t.bottom.kind = "peak"
                      /\ Accepts(t.bottom.val)
                   THEN KeepLargest(acc[2], BottomTrimOf(sh, t.bottom.y))
                   ELSE acc[2]
         IN <<tt, bt>>

\* (mutant: a template larger than the image ends the search with no trim)
MatchOneMutant(t, h, w, acc) ==
    IF t.none THEN acc
    ELSE IF TooLarge(t, h, w) THEN <<0, 0>>
    ELSE MatchFitting(t, h, w, acc)

\* one iteration of "for template_name, template in watermark_templates"
MatchOne(t, h, w, acc) ==
    IF t.none \/ TooLarge(t, h, w) THEN acc
    ELSE MatchFitting(t, h, w, acc)

RECURSIVE MatchLoop(_, _, _, _, _)
MatchLoop(tpls, i, h, w, acc) ==
    IF i > Len(tpls) THEN acc
    ELSE MatchLoop(tpls, i + 1, h, w, MatchOne(tpls[i], h, w, acc))

\* returns (top_trim, bottom_trim); (0, 0) when anything but a cv2.error of
\* matchTemplate raises
_detect_template_watermark(h, w, tpls, raises) ==
    IF raises THEN <<0, 0>> ELSE MatchLoop(tpls, 1, h, w, <<0, 0>>)

-----------------------------------------------------------------------------
(* Boundary detector: _detect_watermark_opencv *)

\* "if text_boundary > 100" (watermark_trimmer) / "> 40" (main)
VoteThresholdTrimmer == 100

VoteThresholdMain == 40

VoteThreshold(i) == IF i = "main" THEN VoteThresholdMain ELSE VoteThresholdTrimmer

\* values a sub-detector can report for a band of rh rows
DetectorValues(rh) == {v \in {0, 45, 101, 160} : v <= rh}

\* (mutant: a value equal to the threshold votes)
VotersMutant(i, vals) == SelectSeq(vals, LAMBDA v : v >= VoteThreshold(i))

\* the three "if ..._boundary > 100: significant_boundaries.append(...)"
Voters(i, vals) == SelectSeq(vals, LAMBDA v : v > VoteThreshold(i))

\* int(np.median(significant_boundaries)) of one, two or three values
Median(s) ==
    IF Len(s) = 1 THEN s[1]
    ELSE IF Len(s) = 2 THEN (s[1] + s[2]) \div 2
    ELSE LET lo == Min(s[1], Min(s[2], s[3]))
             hi == Max(s[1], Max(s[2], s[3]))
         IN s[1] + s[2] + s[3] - lo - hi

\* returns (boundary, confidence); (0, 0) when nothing voted or it raised
_detect_watermark_opencv(i, vals, raises) ==
    IF raises THEN <<0, 0>>
    ELSE LET sig == Voters(i, vals)
         IN IF Len(sig) > 0 THEN <<Median(sig), Len(sig)>> ELSE <<0, 0>>

\* top_search_height = bottom_search_height = int(height * 0.2)
RegionHeight(h) == IntFrac(h, 2, 10)

-----------------------------------------------------------------------------
(* trim_watermark *)

\* "crop_top > 80" (watermark_trimmer) / "> 50" (main)
PixelFloorTrimmer == 80

PixelFloorMain == 50

PixelFloor(i) == IF i = "main" THEN PixelFloorMain ELSE PixelFloorTrimmer

\* (mutant: the template crop must retain 90%)
TemplateFloorMutant(h) == IntFrac(h, 9, 10)

\* int(height * 0.6)
TemplateFloor(h) == IntFrac(h, 6, 10)

\* (mutant: the pattern crop must retain 80% in both copies)
PatternFloorMutant(i, h) == IntFrac(h, 8, 10)

\* int(height * 0.9) (watermark_trimmer) / int(height * 0.8) (main)
PatternFloor(i, h) == IF i = "main" THEN IntFrac(h, 8, 10) ELSE IntFrac(h, 9, 10)

\* crop_top = min(top_trim, int(height * 0.15))
CropTop(h, tt) == Min(tt, IntFrac(h, 15, 100))

\* crop_bottom = max(height - bottom_trim, int(height * 0.85))
CropBottom(h, bt) == Max(h - bt, IntFrac(h, 85, 100))

\* (mutant: two of the three votes are enough)
ShouldTrimTopMutant(i, ct, conf) == ct > PixelFloor(i) /\ conf >= 2

\* should_trim_top / should_trim_bottom (lines 45-46)
ShouldTrimTop(i, ct, conf) == ct > PixelFloor(i) /\ conf >= 3

ShouldTrimBottom(i, h, cb, conf) == (h - cb) > PixelFloor(i) /\ conf >= 3

Same == [kind |-> "same", top |-> 0, bottom |-> 0]

\* img.crop((0, crop_top, width, crop_bottom))
Crop(ct, cb) == [kind |-> "crop", top |-> ct, bottom |-> cb]

\* (mutant: the handler lets the exception out)
OnExceptionMutant == [outcome |-> "raised", result |-> Same]

\* "except Exception as e: ... return img"
OnException == [outcome |-> "returned", result |-> Same]

Init ==
    /\ impl \in Impls
    /\ height \in Heights
    /\ width = ImageWidth
    /\ pc = "start"
    /\ template_top_trim = 0 /\ template_bottom_trim = 0
    /\ top_trim = 0 /\ top_confidence = 0
    /\ bottom_trim = 0 /\ bottom_confidence = 0
    /\ crop_top = 0 /\ crop_bottom = 0
    /\ path = "none"
    /\ outcome = "running"
    /\ result = Same
    /\ exc = "none"
    /\ templates = <<>>
    /\ setup_raises = FALSE
    /\ match_result = <<0, 0>>
    /\ boundaries = <<0, 0, 0>>
    /\ detect_raises = FALSE
    /\ detect_result = <<0, 0>>
    /\ CompositorIdle
    /\ MoreIdle

Finish(o, r, e) ==
    /\ pc' = "done"
    /\ outcome' = o
    /\ result' = r
    /\ exc' = e

\* line 14-15: the conversion succeeds
Convert ==
    /\ pc = "start"
    /\ pc' = "template"
    /\ UNCHANGED <<impl, height, width, trimLocals, path, outcome, result, exc, callVars>>

\* line 14: cv2.cvtColor raises (an image that is not 3- or 4-channel)
ConvertRaises ==
    /\ pc = "start"
    /\ Finish(OnException.outcome, OnException.result, "cvtColor")
    /\ UNCHANGED <<impl, height, width, trimLocals, path, callVars>>

\* line 18: the matcher runs on the templates found on disk
DetectTemplate ==
    /\ pc = "template"
    /\ \E tpls \in TemplateSeqs(height, width), raises \in BOOLEAN :
          LET r == _detect_template_watermark(height, width, tpls, raises)
          IN /\ template_top_trim' = r[1]
             /\ template_bottom_trim' = r[2]
    /\ pc' = "template_check"
    /\ UNCHANGED <<impl, height, width, top_trim, top_confidence, bottom_trim,
                   bottom_confidence, crop_top, crop_bottom, path, outcome, result,
                   exc, callVars>>

TemplateFound == template_top_trim > 0 \/ template_bottom_trim > 0

TemplateRetained ==
    (height - template_bottom_trim) - template_top_trim >= TemplateFloor(height)

\* lines 20-29: the template crop passes the 60% check and is returned
TemplateCrop ==
    /\ pc = "template_check"
    /\ TemplateFound /\ TemplateRetained
    /\ crop_top' = template_top_trim
    /\ crop_bottom' = height - template_bottom_trim
    /\ path' = "template"
    /\ Finish("returned", Crop(template_top_trim, height - template_bottom_trim), "none")
    /\ UNCHANGED <<impl, height, width, template_top_trim, template_bottom_trim,
                   top_trim, top_confidence, bottom_trim, bottom_confidence, callVars>>

\* line 27: img.crop raises
TemplateCropRaises ==
    /\ pc = "template_check"
    /\ TemplateFound /\ TemplateRetained
    /\ crop_top' = template_top_trim
    /\ crop_bottom' = height - template_bottom_trim
    /\ path' = "template"
    /\ Finish(OnException.outcome, OnException.result, "crop")
    /\ UNCHANGED <<impl, height, width, template_top_trim, template_bottom_trim,
                   top_trim, top_confidence, bottom_trim, bottom_confidence, callVars>>

\* lines 20, 26: no template trim, or the 60% check fails: on to method 2
TemplateFallThrough ==
    /\ pc = "template_check"
    /\ ~(TemplateFound /\ TemplateRetained)
    /\ crop_top' = IF TemplateFound THEN template_top_trim ELSE crop_top
    /\ crop_bottom' = IF TemplateFound THEN height - template_bottom_trim ELSE crop_bottom
    /\ pc' = "pattern"
    /\ UNCHANGED <<impl, height, width, template_top_trim, template_bottom_trim,
                   top_trim, top_confidence, bottom_trim, bottom_confidence,
                   path, outcome, result, exc, callVars>>

\* lines 32-46: both bands are analysed and the crop box is computed
DetectPattern ==
    /\ pc = "pattern"
    /\ \E tv \in [1..3 -> DetectorValues(RegionHeight(height))],
          bv \in [1..3 -> DetectorValues(RegionHeight(height))],
          traises \in BOOLEAN, braises \in BOOLEAN :
          LET t == _detect_watermark_opencv(impl, tv, traises)
              b == _detect_watermark_opencv(impl, bv, braises)
          IN /\ top_trim' = t[1] /\ top_confidence' = t[2]
             /\ bottom_trim' = b[1] /\ bottom_confidence' = b[2]
             /\ crop_top' = CropTop(height, t[1])
             /\ crop_bottom' = CropBottom(height, b[1])
    /\ pc' = "pattern_check"
    /\ UNCHANGED <<impl, height, width, template_top_trim, template_bottom_trim,
                   path, outcome, result, exc, callVars>>

ShouldTrim ==
    \/ ShouldTrimTop(impl, crop_top, top_confidence)
    \/ ShouldTrimBottom(impl, height, crop_bottom, bottom_confidence)

PatternRetained == (crop_bottom - crop_top) >= PatternFloor(impl, height)

\* lines 48-52: the pattern crop is accepted and returned
PatternCrop ==
    /\ pc = "pattern_check"
    /\ ShouldTrim /\ PatternRetained
    /\ path' = "pattern"
    /\ Finish("returned", Crop(crop_top, crop_bottom), "none")
    /\ UNCHANGED <<impl, height, width, trimLocals, callVars>>

\* line 50: img.crop raises
PatternCropRaises ==
    /\ pc = "pattern_check"
    /\ ShouldTrim /\ PatternRetained
    /\ path' = "pattern"
    /\ Finish(OnException.outcome, OnException.result, "crop")
    /\ UNCHANGED <<impl, height, width, trimLocals, callVars>>

\* (mutant: the crop is applied without the retention check)
PatternRetentionFailMutant ==
    /\ pc = "pattern_check"
    /\ ShouldTrim /\ ~PatternRetained
    /\ Finish("returned", Crop(crop_top, crop_bottom), "none")
    /\ UNCHANGED <<impl, height, width, trimLocals, path, callVars>>

\* lines 53-54, 58: the retention check fails
PatternRetentionFail ==
    /\ pc = "pattern_check"
    /\ ShouldTrim /\ ~PatternRetained
    /\ Finish("returned", Same, "none")
    /\ UNCHANGED <<impl, height, width, trimLocals, path, callVars>>

\* lines 55-58: no side reaches maximum confidence
PatternNoConfidence ==
    /\ pc = "pattern_check"
    /\ ~ShouldTrim
    /\ Finish("returned", Same, "none")
    /\ UNCHANGED <<impl, height, width, trimLocals, path, callVars>>

Next ==
    \/ Convert
    \/ ConvertRaises
    \/ DetectTemplate
    \/ TemplateCrop
    \/ TemplateCropRaises
    \/ TemplateFallThrough
    \/ DetectPattern
    \/ PatternCrop
    \/ PatternCropRaises
    \/ PatternRetentionFail
    \/ PatternNoConfidence

Spec == Init /\ [][Next]_vars

-----------------------------------------------------------------------------
(* The matcher called on its own *)

InitMatcher ==
    /\ impl = "watermark_trimmer"
    /\ height \in MatcherHeights
    /\ width = ImageWidth
    /\ pc = "matcher_call"
    /\ template_top_trim = 0 /\ template_bottom_trim = 0
    /\ top_trim = 0 /\ top_confidence = 0
    /\ bottom_trim = 0 /\ bottom_confidence = 0
    /\ crop_top = 0 /\ crop_bottom = 0
    /\ path = "none"
    /\ outcome = "running"
    /\ result = Same
    /\ exc = "none"
    /\ templates \in TemplateSeqs(height, width)
    /\ setup_raises \in BOOLEAN
    /\ match_result = <<0, 0>>
    /\ boundaries = <<0, 0, 0>>
    /\ detect_raises = FALSE
    /\ detect_result = <<0, 0>>
    /\ CompositorIdle
    /\ MoreIdle

RunMatcher ==
    /\ pc = "matcher_call"
    /\ match_result' = _detect_template_watermark(height, width, templates, setup_raises)
    /\ pc' = "matcher_returned"
    /\ UNCHANGED <<impl, height, width, trimLocals, path, outcome, result, exc,
                   templates, setup_raises, moreVars, detectorVars, stitchVars, guiVars>>

NextMatcher == RunMatcher

SpecMatcher == InitMatcher /\ [][NextMatcher]_vars

-----------------------------------------------------------------------------
(* The boundary detector called on its own *)

\* what the three sub-detectors report: nothing, the two vote thresholds,
\* values just above them, and a large value
BoundaryValues == {0, 40, 45, 100, 101, 160}

InitDetector ==
    /\ impl \in Impls
    /\ height = 1000
    /\ width = ImageWidth
    /\ pc = "detector_call"
    /\ template_top_trim = 0 /\ template_bottom_trim = 0
    /\ top_trim = 0 /\ top_confidence = 0
    /\ bottom_trim = 0 /\ bottom_confidence = 0
    /\ crop_top = 0 /\ crop_bottom = 0
    /\ path = "none"
    /\ outcome = "running"
    /\ result = Same
    /\ exc = "none"
    /\ templates = <<>>
    /\ setup_raises = FALSE
    /\ match_result = <<0, 0>>
    /\ boundaries \in [1..3 -> BoundaryValues]
    /\ detect_raises \in BOOLEAN
    /\ detect_result = <<0, 0>>
    /\ CompositorIdle
    /\ MoreIdle

RunDetector ==
    /\ pc = "detector_call"
    /\ detect_result' = _detect_watermark_opencv(impl, boundaries, detect_raises)
    /\ pc' = "detector_returned"
    /\ UNCHANGED <<impl, height, width, trimLocals, path, outcome, result, exc,
                   matcherVars, moreVars, boundaries, detect_raises, stitchVars, guiVars>>

NextDetector == RunDetector

SpecDetector == InitDetector /\ [][NextDetector]_vars

-----------------------------------------------------------------------------
(* Strip compositor of the bot: the download loop of process_chapter,       *)
(* stitch_images and stitch_images_fallback.  An image is its width, its    *)
(* height and whether its pixel data can be decoded.                        *)

MaxImages == 3

\* max_height of the call: a 1500 px target and the default of stitch_images
MaxHeights == {1500, 12000}

\* <<width, height>> of the images as trim_watermark hands them on: at the
\* target width, narrower, wider, one whose scaled height is an exact
\* integer that the float product misses, and one taller than every target
ImageSizes ==
    { <<800, 1000>>, <<750, 1200>>, <<820, 800>>, <<780, 117>>, <<800, 12500>> }

\* "ok": opens and decodes.  "truncated": Image.open reads the header, the
\* pixel data raises OSError when first loaded (trim_watermark catches that
\* and returns the image).  "invalid": Image.open raises.
Sources ==
    { [width |-> s[1], height |-> s[2], kind |-> k] :
        s \in ImageSizes, k \in {"ok", "truncated"} }
    \cup { [width |-> 0, height |-> 0, kind |-> "invalid"] }

SourceSeqs == UNION { [1..n -> Sources] : n \in 0..MaxImages }

\* the trimmer's variables while the compositor runs
TrimIdle ==
    /\ height = 0 /\ width = 0
    /\ template_top_trim = 0 /\ template_bottom_trim = 0
    /\ top_trim = 0 /\ top_confidence = 0
    /\ bottom_trim = 0 /\ bottom_confidence = 0
    /\ crop_top = 0 /\ crop_bottom = 0
    /\ path = "none"
    /\ outcome = "running"
    /\ result = Same
    /\ exc = "none"
    /\ templates = <<>>
    /\ setup_raises = FALSE
    /\ match_result = <<0, 0>>
    /\ boundaries = <<0, 0, 0>>
    /\ detect_raises = FALSE
    /\ detect_result = <<0, 0>>

\* the images a loop of Image.open + trim appends: the three attempts on an
\* invalid download all raise and nothing is appended for it
Opened(srcs) ==
    LET ok == SelectSeq(srcs, LAMBDA s : s.kind # "invalid")
    IN [i \in 1..Len(ok) |->
          [width |-> ok[i].width, height |-> ok[i].height, loads |-> ok[i].kind = "ok"]]

\* <<width, height>> for which the double product height * (800 / width)
\* lies just below the exact integer quotient, so that int() gives one less
\* (780 wide: 117 -> 119, 234 -> 239, 351 -> 359, 468 -> 479)
FloatShort == { <<780, 117>>, <<780, 234>>, <<780, 351>>, <<780, 468>> }

\* (mutant: the scaled height is rounded up)
ScaleHeightMutant(h, w, tw) == ((h * tw) + w - 1) \div w + 1

\* int(h * (tw / w)) in double arithmetic
ScaleHeight(h, w, tw) ==
    IF tw = 800 /\ <<w, h>> \in FloatShort THEN (h * tw) \div w - 1
    ELSE (h * tw) \div w

\* target_width = 800 (stitch_images), max_width = 800 (stitch_images_fallback)
target_width == 800

max_width == 800

\* "if img.width != target_width: ... img.resize((target_width, new_height))"
Resized(img, tw) ==
    IF img.width # tw
    THEN [width |-> tw, height |-> ScaleHeight(img.height, img.width, tw), loads |-> img.loads]
    ELSE img

\* a section: the images pasted into it (by position in the list) and the
\* height of its canvas
Section(members, h) == [members |-> members, height |-> h]

Flush(secs, cur, ch) == IF cur # <<>> THEN Append(secs, Section(cur, ch)) ELSE secs

\* "for img in images" of stitch_images_fallback and the flush after it
RECURSIVE FallbackLoop(_, _, _, _, _, _)
FallbackLoop(imgs, i, mh, secs, cur, ch) ==
    IF i > Len(imgs) THEN Flush(secs, cur, ch)
    ELSE LET img == Resized(imgs[i], max_width)
         IN IF ch + img.height > mh
            THEN FallbackLoop(imgs, i + 1, mh, Flush(secs, cur, ch), <<i>>, img.height)
            ELSE FallbackLoop(imgs, i + 1, mh, secs, Append(cur, i), ch + img.height)

\* (mutant: an empty list gives one empty section)
NoImagesMutant == << Section(<<>>, 0) >>

\* "if not images: return []"
NoImages == <<>>

AllLoad(imgs) == \A i \in 1..Len(imgs) : imgs[i].loads

\* resizing or pasting an image whose data cannot be loaded raises inside
\* the try block, which returns []
stitch_images_fallback(imgs, mh) ==
    IF imgs = <<>> THEN NoImages
    ELSE IF ~AllLoad(imgs) THEN <<>>
    ELSE FallbackLoop(imgs, 1, mh, <<>>, <<>>, 0)

RECURSIVE SumHeights(_, _)
SumHeights(imgs, tw) ==
    IF imgs = <<>> THEN 0
    ELSE Resized(Head(imgs), tw).height + SumHeights(Tail(imgs), tw)

\* rows above a fixed cut point at which the pixel detector finds a seam
SeamShifts == {0, 100}

\* SmartStitch: combine, detector.run and slice.  Sections are cut from the
\* top, each at most split_height tall, at the fixed offset or at a seam
\* found above it.
RECURSIVE SliceStrip(_, _, _)
SliceStrip(h, mh, shift) ==
    IF h <= 0 THEN <<>>
    ELSE IF h <= mh THEN << Section(<<>>, h) >>
    ELSE << Section(<<>>, mh - shift) >> \o SliceStrip(h - (mh - shift), mh, shift)

\* how a call of stitch_images ends, and with what
Returns(secs) == [outcome |-> "returned", sections |-> secs]

\* (mutant: the failure of the content-aware path reaches the caller)
OnStitchErrorMutant(imgs, mh) == [outcome |-> "raised", sections |-> <<>>]

\* lines 796-800: "except Exception: ... return stitch_images_fallback(images,
\* max_height)"
OnStitchError(imgs, mh) == Returns(stitch_images_fallback(imgs, mh))

\* the import of core.detectors fails, or resizing an image whose data cannot
\* be loaded raises: the handler runs
stitch_images(imgs, mh, smart, shift) ==
    IF imgs = <<>> THEN Returns(NoImages)
    ELSE IF smart = "works" /\ AllLoad(imgs)
         THEN Returns(SliceStrip(SumHeights(imgs, target_width), mh, shift))
         ELSE OnStitchError(imgs, mh)

\* the list both functions build by resizing every image in turn; nothing
\* is built when the list is empty or an image cannot be loaded
ResizeAll(imgs, tw) ==
    IF AllLoad(imgs) THEN [i \in 1..Len(imgs) |-> Resized(imgs[i], tw)] ELSE <<>>

InitStitch ==
    /\ impl = "watermark_trimmer"
    /\ TrimIdle
    /\ MoreIdle
    /\ pc = "download"
    /\ entry \in {"stitch_images", "stitch_images_fallback"}
    /\ sources \in SourceSeqs
    /\ images = <<>>
    /\ max_height \in MaxHeights
    /\ smartstitch \in {"unavailable", "works"}
    /\ (entry = "stitch_images_fallback" => smartstitch = "unavailable")
    /\ resized_images = <<>>
    /\ sections = <<>>
    /\ output_width = 0 /\ output_height = 0
    /\ stitched_height = 0 /\ target_height = 0
    /\ current_y = 0 /\ parts = <<>>
    /\ saved = <<>>
    /\ success = FALSE

\* bot.py 489-517: every download is opened and trimmed; one that cannot be
\* opened is logged and left out
DownloadImages ==
    /\ pc = "download"
    /\ images' = Opened(sources)
    /\ pc' = entry
    /\ UNCHANGED <<trimVars, matcherVars, moreVars, detectorVars, guiVars,
                   entry, sources, max_height, smartstitch, resized_images, sections>>

CallStitchImages ==
    /\ pc = "stitch_images"
    /\ \E shift \in SeamShifts :
          LET r == stitch_images(images, max_height, smartstitch, shift)
          IN /\ sections' = r.sections
             /\ outcome' = r.outcome
    /\ resized_images' = ResizeAll(images, target_width)
    /\ pc' = "stitched"
    /\ UNCHANGED <<impl, height, width, trimLocals, path, result, exc,
                   matcherVars, moreVars, detectorVars, guiVars,
                   entry, sources, images, max_height, smartstitch>>

CallFallback ==
    /\ pc = "stitch_images_fallback"
    /\ sections' = stitch_images_fallback(images, max_height)
    /\ outcome' = "returned"
    /\ resized_images' = ResizeAll(images, max_width)
    /\ pc' = "stitched"
    /\ UNCHANGED <<impl, height, width, trimLocals, path, result, exc,
                   matcherVars, moreVars, detectorVars, guiVars,
                   entry, sources, images, max_height, smartstitch>>

NextStitch ==
    \/ DownloadImages
    \/ CallStitchImages
    \/ CallFallback

SpecStitch == InitStitch /\ [][NextStitch]_vars

-----------------------------------------------------------------------------
(* Strip compositor of the GUI: main.process_images and main._split_image *)

\* output_width of the call: 0 (unset) or 800
OutputWidths == {0, 800}

\* output_height of the call: 0 (do not slice) or 1500
OutputHeights == {0, 1500}

RECURSIVE TotalHeight(_)
TotalHeight(imgs) ==
    IF imgs = <<>> THEN 0 ELSE Head(imgs).height + TotalHeight(Tail(imgs))

RECURSIVE WidestOf(_)
WidestOf(imgs) ==
    IF imgs = <<>> THEN 0 ELSE Max(Head(imgs).width, WidestOf(Tail(imgs)))

\* "if output_width and output_width != max_width": the whole strip is
\* resized, new_height = int(total_height * (output_width / max_width))
StitchedHeight(imgs, ow) ==
    IF ow # 0 /\ ow # WidestOf(imgs)
    THEN ScaleHeight(TotalHeight(imgs), WidestOf(imgs), ow)
    ELSE TotalHeight(imgs)

\* (mutant: the strip is sliced whatever the target height)
SliceWantedMutant(oh) == oh >= 0

\* "if output_height > 0"
SliceWanted(oh) == oh > 0

\* (mutant: the end of a part is not limited to the image)
SplitEndMutant(y, th, h) == y + th

\* end_y = min(current_y + target_height, height)
SplitEnd(y, th, h) == Min(y + th, h)

\* f'{i:02d}': the decimal digits of i, at least two
RECURSIVE Digits(_)
Digits(n) == IF n < 10 THEN <<n>> ELSE Append(Digits(n \div 10), n % 10)

TwoDigits(i) == IF i < 10 THEN <<0>> \o Digits(i) ELSE Digits(i)

\* a saved file: the number in its name and the height of the image
SavedFile(i, h) == [name |-> TwoDigits(i), height |-> h]

InitGui ==
    /\ impl = "main"
    /\ TrimIdle
    /\ MoreIdle
    /\ pc = "process_images"
    /\ entry = "process_images"
    /\ sources \in SourceSeqs
    /\ images = <<>>
    /\ max_height = 0
    /\ smartstitch = "unavailable"
    /\ resized_images = <<>>
    /\ sections = <<>>
    /\ output_width \in OutputWidths
    /\ output_height \in OutputHeights
    /\ stitched_height = 0 /\ target_height = 0
    /\ current_y = 0 /\ parts = <<>>
    /\ saved = <<>>
    /\ success = FALSE

\* what the steps of process_images leave alone
GuiFrame == UNCHANGED <<trimVars, matcherVars, moreVars, detectorVars, entry, sources,
                        max_height,
                        smartstitch, resized_images, sections, output_width,
                        output_height>>

\* lines 56-57: no image file in the folder
NoImageFiles ==
    /\ pc = "process_images"
    /\ sources = <<>>
    /\ success' = FALSE
    /\ pc' = "returned"
    /\ GuiFrame
    /\ UNCHANGED <<images, stitched_height, target_height, current_y, parts, saved>>

CanOpen(srcs) == \A i \in 1..Len(srcs) : srcs[i].kind # "invalid"

\* lines 63-72: every file is opened and trimmed
LoadImages ==
    /\ pc = "process_images"
    /\ sources # <<>> /\ CanOpen(sources)
    /\ images' = Opened(sources)
    /\ pc' = "stitch"
    /\ GuiFrame
    /\ UNCHANGED <<stitched_height, target_height, current_y, parts, saved, success>>

\* line 68: Image.open raises on a file; lines 156-157 return the failure
LoadRaises ==
    /\ pc = "process_images"
    /\ sources # <<>> /\ ~CanOpen(sources)
    /\ success' = FALSE
    /\ pc' = "returned"
    /\ GuiFrame
    /\ UNCHANGED <<images, stitched_height, target_height, current_y, parts, saved>>

\* lines 82-126, 141: the images are pasted under one another, the strip is
\* resized to output_width, and _split_image is called or not
Stitch ==
    /\ pc = "stitch"
    /\ AllLoad(images)
    /\ stitched_height' = StitchedHeight(images, output_width)
    /\ IF SliceWanted(output_height)
       THEN /\ target_height' = output_height
            /\ current_y' = 0
            /\ parts' = <<>>
            /\ pc' = "split_loop"
       ELSE /\ pc' = "save_single"
            /\ UNCHANGED <<target_height, current_y, parts>>
    /\ GuiFrame
    /\ UNCHANGED <<images, saved, success>>

\* line 110: pasting an image whose data cannot be loaded raises
StitchRaises ==
    /\ pc = "stitch"
    /\ ~AllLoad(images)
    /\ success' = FALSE
    /\ pc' = "returned"
    /\ GuiFrame
    /\ UNCHANGED <<images, stitched_height, target_height, current_y, parts, saved>>

\* lines 624-632: one iteration of "while current_y < height"
SplitIter ==
    /\ pc = "split_loop"
    /\ current_y < stitched_height
    /\ LET end_y == SplitEnd(current_y, target_height, stitched_height)
       IN /\ parts' = Append(parts, end_y - current_y)
          /\ current_y' = end_y
    /\ GuiFrame
    /\ UNCHANGED <<pc, images, stitched_height, target_height, saved, success>>

\* line 634: "return parts"
SplitReturn ==
    /\ pc = "split_loop"
    /\ ~(current_y < stitched_height)
    /\ pc' = IF entry = "_split_image" THEN "split_returned" ELSE "save_parts"
    /\ GuiFrame
    /\ UNCHANGED <<images, stitched_height, target_height, current_y, parts, saved,
                   success>>

\* lines 128-140, 154: the parts are saved as 01, 02, ...
SaveParts ==
    /\ pc = "save_parts"
    /\ saved' = [i \in 1..Len(parts) |-> SavedFile(i, parts[i])]
    /\ success' = TRUE
    /\ pc' = "returned"
    /\ GuiFrame
    /\ UNCHANGED <<images, stitched_height, target_height, current_y, parts>>

\* lines 141-154: the strip is saved whole as 01
SaveSingle ==
    /\ pc = "save_single"
    /\ saved' = << SavedFile(1, stitched_height) >>
    /\ success' = TRUE
    /\ pc' = "returned"
    /\ GuiFrame
    /\ UNCHANGED <<images, stitched_height, target_height, current_y, parts>>

NextGui ==
    \/ NoImageFiles
    \/ LoadImages
    \/ LoadRaises
    \/ Stitch
    \/ StitchRaises
    \/ SplitIter
    \/ SplitReturn
    \/ SaveParts
    \/ SaveSingle

SpecGui == InitGui /\ [][NextGui]_vars

-----------------------------------------------------------------------------
(* _split_image called on its own *)

MaxStripHeight == 12

MaxTargetHeight == 5

InitSplit ==
    /\ impl = "main"
    /\ TrimIdle
    /\ MoreIdle
    /\ pc = "split_loop"
    /\ entry = "_split_image"
    /\ sources = <<>> /\ images = <<>>
    /\ max_height = 0
    /\ smartstitch = "unavailable"
    /\ resized_images = <<>>
    /\ sections = <<>>
    /\ output_width = 0 /\ output_height = 0
    /\ stitched_height \in 1..MaxStripHeight
    /\ target_height \in 1..MaxTargetHeight
    /\ current_y = 0 /\ parts = <<>>
    /\ saved = <<>>
    /\ success = FALSE

NextSplit ==
    \/ SplitIter
    \/ SplitReturn

SpecSplit == InitSplit /\ [][NextSplit]_vars

\* the loop is a sequential program: it takes its next step
SpecSplitFair == SpecSplit /\ WF_vars(NextSplit)

-----------------------------------------------------------------------------
(* the three sub-detectors called on their own.  cv2's results are the
   inputs: per row of the band the statistics the scanners read, and for the
   text detector the bounding rectangles of the contours found *)

MaxRows == 3

MaxContours == 6

BandHeight == 200

\* rows of a band: np.mean(mean_color), np.mean(std_color) and
\* np.sum(edges[y, :]) / width, each on either side of the thresholds
RowKinds ==
    { [mean |-> 255, std |-> 0, edges |-> 0],
      [mean |-> 251, std |-> 1, edges |-> 1],
      [mean |-> 251, std |-> 5, edges |-> 3],
      [mean |-> 150, std |-> 0, edges |-> 0],
      [mean |-> 149, std |-> 0, edges |-> 2],
      [mean |-> 149, std |-> 5, edges |-> 9],
      [mean |-> 179, std |-> 3, edges |-> 8] }

Bands == UNION { [1..n -> RowKinds] : n \in 0..MaxRows }

\* cv2.boundingRect of a contour (x plays no part): two rectangles that
\* qualify as text, one too narrow that reaches the band's inner edge from
\* the top, one too flat that starts at the band's first row
Rects ==
    { [y |-> 10, w |-> 51, h |-> 16],
      [y |-> 150, w |-> 200, h |-> 40],
      [y |-> 100, w |-> 50, h |-> BandHeight - 100],
      [y |-> 0, w |-> 300, h |-> 15] }

ContourLists == UNION { [1..n -> Rects] : n \in 0..MaxContours }

MinTextWidth == 50

MinTextHeight == 15

MinTextRegionsTrimmer == 5

MinTextRegionsMain == 3

MinTextRegionsMutant(i) == MinTextRegionsMain

MinTextRegions(i) ==
    IF i = "watermark_trimmer" THEN MinTextRegionsTrimmer ELSE MinTextRegionsMain

\* if w > 50 and h > 15
IsTextRegion(r) == r.w > MinTextWidth /\ r.h > MinTextHeight

\* the 'top' loop: <<max_y, text_regions>> after the contours from k on
RECURSIVE TextTopLoop(_, _, _, _)
TextTopLoop(cs, k, max_y, text_regions) ==
    IF k > Len(cs) THEN <<max_y, text_regions>>
    ELSE IF IsTextRegion(cs[k])
         THEN TextTopLoop(cs, k + 1, Max(max_y, cs[k].y + cs[k].h), text_regions + 1)
         ELSE TextTopLoop(cs, k + 1, max_y, text_regions)

\* the 'bottom' loop: <<min_y, text_regions>>
RECURSIVE TextBottomLoop(_, _, _, _)
TextBottomLoop(cs, k, min_y, text_regions) ==
    IF k > Len(cs) THEN <<min_y, text_regions>>
    ELSE IF IsTextRegion(cs[k])
         THEN TextBottomLoop(cs, k + 1, Min(min_y, cs[k].y), text_regions + 1)
         ELSE TextBottomLoop(cs, k + 1, min_y, text_regions)

_detect_text_boundary(i, cs, h, pos) ==
    IF pos = "top"
    THEN LET r == TextTopLoop(cs, 1, 0, 0)
         IN  IF r[2] >= MinTextRegions(i) THEN r[1] ELSE 0
    ELSE IF pos = "bottom"
    THEN LET r == TextBottomLoop(cs, 1, h, 0)
         IN  IF r[2] >= MinTextRegions(i) THEN h - r[1] ELSE 0
    ELSE 0

EdgeRowThresholdTrimmer == 2

EdgeRowThresholdMain == 8

EdgeRowThreshold(i) ==
    IF i = "watermark_trimmer" THEN EdgeRowThresholdTrimmer ELSE EdgeRowThresholdMain

\* for y in range(height): if row_edges < 2: return y   (y counts from 0)
RECURSIVE EdgeTopLoop(_, _, _)
EdgeTopLoop(i, q, y) ==
    IF y >= Len(q) THEN 0
    ELSE IF q[y + 1].edges < EdgeRowThreshold(i) THEN y
    ELSE EdgeTopLoop(i, q, y + 1)

\* for y in range(height - 1, -1, -1): if row_edges < 2: return height - y
RECURSIVE EdgeBottomLoop(_, _, _)
EdgeBottomLoop(i, q, y) ==
    IF y < 0 THEN 0
    ELSE IF q[y + 1].edges < EdgeRowThreshold(i) THEN Len(q) - y
    ELSE EdgeBottomLoop(i, q, y - 1)

_detect_edge_boundary(i, q, pos) ==
    IF pos = "top" THEN EdgeTopLoop(i, q, 0)
    ELSE IF pos = "bottom" THEN EdgeBottomLoop(i, q, Len(q) - 1)
    ELSE 0

UniformStdTrimmer == 2

UniformStdMain == 5

AlmostWhiteTrimmer == 250

AlmostWhiteMain == 240

DarkContentTrimmer == 150

DarkContentMain == 180

is_extremely_uniform(i, row) ==
    row.std < (IF i = "watermark_trimmer" THEN UniformStdTrimmer ELSE UniformStdMain)

is_almost_white(i, row) ==
    row.mean > (IF i = "watermark_trimmer" THEN AlmostWhiteTrimmer ELSE AlmostWhiteMain)

DarkContent(i) ==
    IF i = "watermark_trimmer" THEN DarkContentTrimmer ELSE DarkContentMain

ColorRowStopsMutant(i, row) ==
    ~is_extremely_uniform(i, row) /\ row.mean < DarkContent(i)

\* if not (is_extremely_uniform and is_almost_white) and np.mean(mean_color) < 150
ColorRowStops(i, row) ==
    /\ ~(is_extremely_uniform(i, row) /\ is_almost_white(i, row))
    /\ row.mean < DarkContent(i)

RECURSIVE ColorTopLoop(_, _, _)
ColorTopLoop(i, q, y) ==
    IF y >= Len(q) THEN 0
    ELSE IF ColorRowStops(i, q[y + 1]) THEN y
    ELSE ColorTopLoop(i, q, y + 1)

RECURSIVE ColorBottomLoop(_, _, _)
ColorBottomLoop(i, q, y) ==
    IF y < 0 THEN 0
    ELSE IF ColorRowStops(i, q[y + 1]) THEN Len(q) - y
    ELSE ColorBottomLoop(i, q, y - 1)

_detect_color_boundary(i, q, pos) ==
    IF pos = "top" THEN ColorTopLoop(i, q, 0)
    ELSE IF pos = "bottom" THEN ColorBottomLoop(i, q, Len(q) - 1)
    ELSE 0

SubDetectors ==
    {"_detect_text_boundary", "_detect_edge_boundary", "_detect_color_boundary"}

InitSub ==
    /\ impl \in Impls
    /\ TrimIdle
    /\ ChapterIdle
    /\ SeriesIdle
    /\ pc = "sub_call"
    /\ entry \in SubDetectors
    /\ sources = <<>> /\ images = <<>>
    /\ max_height = 0
    /\ smartstitch = "unavailable"
    /\ resized_images = <<>>
    /\ sections = <<>>
    /\ output_width = 0 /\ output_height = 0
    /\ stitched_height = 0 /\ target_height = 0
    /\ current_y = 0 /\ parts = <<>>
    /\ saved = <<>>
    /\ success = FALSE
    /\ position \in {"top", "bottom"}
    /\ IF entry = "_detect_text_boundary"
       THEN rows = <<>> /\ region_height = BandHeight /\ contours \in ContourLists
       ELSE rows \in Bands /\ region_height = Len(rows) /\ contours = <<>>
    /\ sub_result = 0

SubFrame ==
    UNCHANGED <<trimVars, matcherVars, detectorVars, stitchVars, guiVars,
                partVars, seriesVars, position, rows, region_height, contours>>

RunTextBoundary ==
    /\ pc = "sub_call"
    /\ entry = "_detect_text_boundary"
    /\ sub_result' = _detect_text_boundary(impl, contours, region_height, position)
    /\ pc' = "sub_returned"
    /\ SubFrame

RunEdgeBoundary ==
    /\ pc = "sub_call"
    /\ entry = "_detect_edge_boundary"
    /\ sub_result' = _detect_edge_boundary(impl, rows, position)
    /\ pc' = "sub_returned"
    /\ SubFrame

RunColorBoundary ==
    /\ pc = "sub_call"
    /\ entry = "_detect_color_boundary"
    /\ sub_result' = _detect_color_boundary(impl, rows, position)
    /\ pc' = "sub_returned"
    /\ SubFrame

NextSub ==
    \/ RunTextBoundary
    \/ RunEdgeBoundary
    \/ RunColorBoundary

SpecSub == InitSub /\ [][NextSub]_vars

-----------------------------------------------------------------------------
(* bot.py process_chapter: the loop over the parts of one chapter.  A part's
   URL is named by its part number, which is also its path/part key; a
   content signature is named by the order in which it was first seen, 0
   being the empty signature of a page without images *)

MAX_PARTS == 20

MaxExpected == 20

MaxPageImages == 5

\* min(2, expected_total_parts), lines 435 and 478
MinPartsBeforeCheck == 2

\* images = images[4:]
DuplicateTail == 4

\* the parts a page's navigation may link to: the next one, or the first
\* one again (on the first page: the page itself)
Links(url) == {url + 1, 1}

\* tuple(images[:10]) of a fetched page: empty, one seen before, or new
PageSignatures == {0} \cup (processed_chunks \ {0})
                      \cup {Cardinality(processed_chunks \ {0}) + 1}

\* next_url after the navigation selectors and the URL generation of lines
\* 595-620; pattern_ok: the URL has the 0_226[_n].html shape and the
\* generated URL is of the same chapter
NextUrl(link, pattern_ok) ==
    IF link # 0 THEN link
    ELSE IF part_count < expected_total_parts /\ pattern_ok THEN current_url + 1
    ELSE 0

\* max_allowed_parts = min(expected_total_parts + 1, MAX_PARTS)
max_allowed_parts(e) == Min(e + 1, MAX_PARTS)

\* lines 647-713: <<current_url, part_count>> after the page was handled
Follow(next_url, pattern_ok, visited) ==
    IF expected_total_parts = 1 /\ part_count >= 1
    THEN <<0, part_count>>
    ELSE IF next_url # 0 /\ part_count < max_allowed_parts(expected_total_parts)
    THEN IF next_url \in visited
         THEN IF pattern_ok /\ current_url + 1 \notin visited
              THEN <<current_url + 1, part_count + 1>>
              ELSE <<0, part_count>>
         ELSE <<next_url, part_count + 1>>
    ELSE <<0, part_count>>

\* the images of a page that are downloaded: the first 4 of a later part
\* are dropped as repeats of the previous part
Kept(found) == IF part_count > 0 THEN Max(found - DuplicateTail, 0) ELSE found

InitParts ==
    /\ impl = "watermark_trimmer"
    /\ TrimIdle
    /\ SubIdle
    /\ StitchGuiIdle
    /\ SeriesIdle
    /\ entry = "process_chapter"
    /\ pc = "part_loop"
    /\ expected_total_parts \in 1..MaxExpected
    /\ part_count = 0
    /\ current_url = 1
    /\ visited_urls = {}
    /\ processed_chunks = {}
    /\ page_requests = 0
    /\ all_images = 0

PartsFrame ==
    UNCHANGED <<trimVars, matcherVars, detectorVars, stitchVars, guiVars,
                subVars, seriesVars, expected_total_parts>>

\* one pass through the body of 'while current_url and part_count < MAX_PARTS'
PartIter ==
    /\ pc = "part_loop"
    /\ current_url # 0 /\ part_count < MAX_PARTS
    /\ PartsFrame
    /\ IF /\ current_url \in visited_urls
          /\ part_count >= Min(MinPartsBeforeCheck, expected_total_parts)
       THEN \* break
            /\ pc' = "chapter_returned"
            /\ UNCHANGED <<part_count, current_url, visited_urls, processed_chunks,
                           page_requests, all_images>>
       ELSE /\ visited_urls' = visited_urls \cup {current_url}
            /\ page_requests' = page_requests + 1
            /\ \E fetch_ok \in BOOLEAN, sig \in PageSignatures,
                  downloaded \in BOOLEAN,
                  link \in {0} \cup Links(current_url), pattern_ok \in BOOLEAN :
                 IF ~fetch_ok
                 THEN \* requests.get raised: break
                      /\ pc' = "chapter_returned"
                      /\ UNCHANGED <<part_count, current_url, processed_chunks,
                                     all_images>>
                 ELSE IF /\ sig # 0 /\ sig \in processed_chunks
                         /\ part_count >= Min(MinPartsBeforeCheck, expected_total_parts)
                 THEN \* content already processed: break
                      /\ pc' = "chapter_returned"
                      /\ UNCHANGED <<part_count, current_url, processed_chunks,
                                     all_images>>
                 ELSE LET found == IF sig = 0 THEN 0 ELSE MaxPageImages
                          r == Follow(NextUrl(link, pattern_ok), pattern_ok,
                                      visited_urls')
                      IN  /\ processed_chunks' = processed_chunks \cup {sig}
                          /\ all_images' =
                                all_images + (IF downloaded THEN Kept(found) ELSE 0)
                          /\ current_url' = r[1]
                          /\ part_count' = r[2]
                          /\ pc' = "part_loop"

\* the loop condition fails: the summary is logged and all_images returned
PartLoopExit ==
    /\ pc = "part_loop"
    /\ ~(current_url # 0 /\ part_count < MAX_PARTS)
    /\ pc' = "chapter_returned"
    /\ PartsFrame
    /\ UNCHANGED <<part_count, current_url, visited_urls, processed_chunks,
                   page_requests, all_images>>

NextParts ==
    \/ PartIter
    \/ PartLoopExit

SpecParts == InitParts /\ [][NextParts]_vars

\* the loop is a sequential program: it takes its next step
SpecPartsFair == SpecParts /\ WF_vars(NextParts)

-----------------------------------------------------------------------------
(* bot.py process_series, run after run for one series: get_new_chapters,
   process_single_chapter for the first new chapter, get_new_chapters again
   for the count of the remaining ones.  state.json is the one value
   last_processed_chapter; a chapter is named by its number *)

MaxChapter == 3

MaxRuns == 3

MAX_CHAPTERS_PER_RUN == 1

\* all_chapters.sort(key=lambda x: x['number'])
RECURSIVE SortedChapters(_)
SortedChapters(S) ==
    IF S = {} THEN <<>>
    ELSE LET m == CHOOSE c \in S : \A d \in S : c <= d
         IN  <<m>> \o SortedChapters(S \ {m})

\* get_series_state(...).get('last_processed_chapter', 0); a state file that
\* cannot be read gives {}
get_series_state(load_ok) == IF load_ok THEN last_processed_chapter ELSE 0

\* get_new_chapters: [] when the page cannot be fetched or lists nothing,
\* else the chapters above last_processed_chapter in ascending order
get_new_chapters(page_ok, load_ok) ==
    IF ~page_ok \/ listed = {} THEN <<>>
    ELSE SortedChapters({c \in listed : c > get_series_state(load_ok)})

\* save_series_state: state.json after the call; a failed write leaves it
save_series_state(save_ok, number) ==
    IF save_ok THEN number ELSE last_processed_chapter

InitSeries ==
    /\ impl = "watermark_trimmer"
    /\ TrimIdle
    /\ SubIdle
    /\ StitchGuiIdle
    /\ ChapterIdle
    /\ entry = "process_series"
    /\ pc = "series_idle"
    /\ last_processed_chapter \in 0..MaxChapter
    /\ listed \in SUBSET (1..MaxChapter)
    /\ new_chapters = <<>>
    /\ chapter_number = 0
    /\ processing_success = FALSE
    /\ upload_success = FALSE
    /\ single_result = "none"
    /\ runs = 0

SeriesFrame ==
    UNCHANGED <<trimVars, matcherVars, detectorVars, stitchVars, guiVars,
                subVars, partVars, listed>>

\* process_series up to the call of process_single_chapter
StartRun ==
    /\ pc = "series_idle"
    /\ runs < MaxRuns
    /\ runs' = runs + 1
    /\ \E page_ok \in BOOLEAN, load_ok \in BOOLEAN :
          new_chapters' = get_new_chapters(page_ok, load_ok)
    /\ IF new_chapters' = <<>>
       THEN pc' = "series_idle" /\ UNCHANGED chapter_number
       ELSE /\ pc' = "process_single"
            /\ chapter_number' = SubSeq(new_chapters', 1, MAX_CHAPTERS_PER_RUN)[1]
    /\ SeriesFrame
    /\ UNCHANGED <<last_processed_chapter, processing_success, upload_success,
                   single_result>>

\* process_single_chapter, as called from the loop of process_series, which
\* catches what it raises.  collected: process_chapter returned images;
\* stitch_ok: stitch_images returned sections; upload_ok: upload_to_drive
\* succeeded; notify_ok: send_notification returned (webhook.execute() is
\* not guarded); save_ok: state.json could be written
ProcessSingleChapter ==
    /\ pc = "process_single"
    /\ \E collected \in BOOLEAN, stitch_ok \in BOOLEAN, upload_ok \in BOOLEAN,
          notify_ok \in BOOLEAN, save_ok \in BOOLEAN :
          /\ processing_success' = collected
          /\ upload_success' = (collected /\ stitch_ok /\ upload_ok)
          /\ IF ~notify_ok
             THEN single_result' = "raised" /\ UNCHANGED last_processed_chapter
             ELSE IF collected
             THEN /\ last_processed_chapter' = save_series_state(save_ok, chapter_number)
                  /\ single_result' = "True"
             ELSE single_result' = "False" /\ UNCHANGED last_processed_chapter
    /\ pc' = "count_remaining"
    /\ SeriesFrame
    /\ UNCHANGED <<new_chapters, chapter_number, runs>>

\* remaining_chapters = len(get_new_chapters(series)), and the return
CountRemaining ==
    /\ pc = "count_remaining"
    /\ \E page_ok \in BOOLEAN, load_ok \in BOOLEAN :
          new_chapters' = get_new_chapters(page_ok, load_ok)
    /\ pc' = "series_idle"
    /\ SeriesFrame
    /\ UNCHANGED <<last_processed_chapter, chapter_number, processing_success,
                   upload_success, single_result, runs>>

NextSeries ==
    \/ StartRun
    \/ ProcessSingleChapter
    \/ CountRemaining

SpecSeries == InitSeries /\ [][NextSeries]_vars

-----------------------------------------------------------------------------
(* Properties of trim_watermark (specification Spec) *)

Done == pc = "done"

AppliedCrop == Done /\ result.kind = "crop"

\* the template trim was computed and failed the 60% check
TemplateFailed == TemplateFound /\ ~TemplateRetained

\* the pattern trim was computed, qualified on a side, and failed its check
PatternFailed ==
    /\ path = "none" /\ exc = "none"
    /\ ShouldTrim /\ ~PatternRetained

\* C1: trim_watermark never raises: every call ends by returning an image,
\* and a call in which a step raised (the conversion, a crop) returns the
\* input image unchanged.
C1_NeverRaises ==
    /\ outcome # "raised"
    /\ Done => outcome = "returned" /\ result.kind \in {"same", "crop"}
    /\ exc # "none" => Done /\ outcome = "returned" /\ result = Same

C1_Witness ==
    /\ Done /\ exc = "crop" /\ path = "pattern"
    /\ outcome = "returned" /\ result = Same

\* C2: every crop accepted on the template-match path retains at least
\* 0.6 x the original height.
C2_TemplateRetains60 ==
    (AppliedCrop /\ path = "template") =>
        10 * (result.bottom - result.top) >= 6 * height

\* C3: every crop accepted on the pattern-based path retains at least
\* 0.9 x the original height, in watermark_trimmer.trim_watermark and in
\* main._trim_watermark.
C3_PatternRetains90 ==
    (AppliedCrop /\ path = "pattern") =>
        10 * (result.bottom - result.top) >= 9 * height

\* C4: with both template trims 0 and neither band at confidence 3 the
\* input image is returned unchanged.
C4_Identity ==
    (/\ Done
     /\ template_top_trim = 0 /\ template_bottom_trim = 0
     /\ top_confidence < 3 /\ bottom_confidence < 3)
    => result = Same /\ outcome = "returned"

C4_Witness ==
    /\ Done /\ exc = "none"
    /\ template_top_trim = 0 /\ template_bottom_trim = 0
    /\ top_confidence = 2 /\ top_trim > PixelFloor(impl)
    /\ bottom_confidence = 2 /\ bottom_trim > PixelFloor(impl)
    /\ height - top_trim - bottom_trim >= PatternFloor(impl, height)
    /\ result = Same

\* C5: on the pattern-based path of trim_watermark a side loses rows only
\* if that same side has confidence 3 and its capped trim exceeds 80 px.
C5_PerSideGate ==
    (AppliedCrop /\ path = "pattern" /\ impl = "watermark_trimmer") =>
        /\ result.top > 0 =>
              top_confidence >= 3 /\ crop_top > PixelFloorTrimmer
        /\ result.bottom < height =>
              bottom_confidence >= 3 /\ (height - crop_bottom) > PixelFloorTrimmer

\* C6: every crop trim_watermark applies satisfies
\* 0 <= crop_top < crop_bottom <= height, i.e. top offset + bottom offset
\* < height and at least one row is returned.
C6_CropInsideImage ==
    AppliedCrop =>
        /\ 0 <= result.top /\ result.top < result.bottom /\ result.bottom <= height
        /\ result.top + (height - result.bottom) < height

C6_Witness ==
    /\ AppliedCrop /\ path = "template"
    /\ result.top > 0 /\ result.bottom < height
    /\ height < 10

\* C7: on the pattern-based path of trim_watermark the offset computed for
\* each side never exceeds 15% of the image height.
C7_CapFifteenPercent ==
    (pc = "pattern_check" /\ impl = "watermark_trimmer") =>
        /\ 100 * crop_top <= 15 * height
        /\ 100 * (height - crop_bottom) <= 15 * height

\* C8 as stated: whenever a computed trim (template or pattern) fails its
\* retention check, the original image is returned unchanged.
C8_FailedRetentionReturnsOriginal ==
    (Done /\ (TemplateFailed \/ PatternFailed)) =>
        result = Same /\ outcome = "returned"

\* C8 as amended: a trim that fails its retention check is never applied
\* and nothing is raised; after a failed pattern trim the original image is
\* returned; after a failed template trim the pattern-based path decides,
\* so the result is the original image or the crop that path accepted.
C8_FailedRetentionDiscarded ==
    Done =>
        /\ PatternFailed => result = Same /\ outcome = "returned"
        /\ TemplateFailed =>
              /\ outcome = "returned"
              /\ result # Crop(template_top_trim, height - template_bottom_trim)
              /\ \/ result = Same
                 \/ /\ path = "pattern" /\ ShouldTrim /\ PatternRetained
                    /\ result = Crop(crop_top, crop_bottom)

C8_Witness ==
    /\ Done /\ TemplateFailed
    /\ path = "pattern" /\ result.kind = "crop"

C8_WitnessPattern == Done /\ PatternFailed /\ result = Same

-----------------------------------------------------------------------------
(* Properties of _detect_template_watermark (specification SpecMatcher) *)

Returned == pc = "matcher_returned"

\* template i produced an accepted match in the top / bottom band
TopMatched(i) ==
    /\ ~setup_raises
    /\ TopSearched(templates[i], height, width)
    /\ templates[i].top.kind = "peak" /\ templates[i].top.val >= 70

BottomMatched(i) ==
    /\ ~setup_raises
    /\ BottomSearched(templates[i], height, width)
    /\ templates[i].bottom.kind = "peak" /\ templates[i].bottom.val >= 70

\* rows of the band that was searched at the bottom for template i
BottomBandRows(i) ==
    BottomAreaRows(height, Min(templates[i].ref_h + 50, height \div 3))

\* C9: a match counts only from correlation 0.7; a top match at row y of a
\* template of height t gives top trim >= y + t, a bottom match at row y of
\* the bottom band gives bottom trim >= band height - y, and without an
\* accepted match a side's trim is 0. Instance: a 60 px template matched at
\* y = 0 with 0.82 in a 2000 px image gives top trim 60 and the crop to
\* 1940 rows passes the 60% check.
C9_TopMatchTrims ==
    Returned =>
        /\ \A i \in 1..Len(templates) :
              TopMatched(i) =>
                  match_result[1] >= templates[i].top.y + templates[i].ref_h
        /\ (\A i \in 1..Len(templates) : ~TopMatched(i)) => match_result[1] = 0
        /\ (\A i \in 1..Len(templates) : ~BottomMatched(i)) => match_result[2] = 0

C9_BottomMatchTrims ==
    Returned =>
        \A i \in 1..Len(templates) :
            BottomMatched(i) =>
                match_result[2] >= BottomBandRows(i) - templates[i].bottom.y

C9_Instance ==
    (/\ Returned /\ height = 2000 /\ ~setup_raises
     /\ Len(templates) = 1
     /\ templates[1].ref_h = 60 /\ templates[1].ref_w <= width
     /\ templates[1].top = Peak(82, 0)
     /\ ~BottomMatched(1))
    => /\ match_result = <<60, 0>>
       /\ (height - match_result[2]) - match_result[1] = 1940
       /\ 1940 >= TemplateFloor(height)

C9_MatchTrimsThroughRegion ==
    C9_TopMatchTrims /\ C9_BottomMatchTrims /\ C9_Instance

Perms(n) == { p \in [1..n -> 1..n] : \A i, j \in 1..n : p[i] = p[j] => i = j }

Reordered(p) == [i \in 1..Len(templates) |-> templates[p[i]]]

SetMax(S) == IF S = {} THEN 0 ELSE CHOOSE m \in S : \A x \in S : x <= m

TopTrimsImplied ==
    { templates[i].top.y + templates[i].ref_h : i \in {j \in 1..Len(templates) : TopMatched(j)} }

\* the trim a bottom match implies is search_height_bottom - y, as line 127
\* computes it
BottomTrimsImplied ==
    { Min(templates[i].ref_h + 50, height \div 3) - templates[i].bottom.y :
        i \in {j \in 1..Len(templates) : BottomMatched(j)} }

\* C10: per side the matcher returns the maximum of the trims implied by
\* the accepted matches (0 if there is none), and the same result for every
\* order of the template list.
C10_MaxOverMatches ==
    Returned =>
        /\ match_result[1] = SetMax(TopTrimsImplied \cup {0})
        /\ match_result[2] = SetMax(BottomTrimsImplied \cup {0})
        /\ \A p \in Perms(Len(templates)) :
              _detect_template_watermark(height, width, Reordered(p), setup_raises)
                  = match_result

C10_Witness ==
    /\ Returned /\ Len(templates) = 2
    /\ TopMatched(1) /\ TopMatched(2)
    /\ templates[1].top.y + templates[1].ref_h > templates[2].top.y + templates[2].ref_h
    /\ BottomMatched(1) /\ BottomMatched(2)
    /\ match_result[1] = templates[1].top.y + templates[1].ref_h

\* the list with its i-th entry taken out
Without(tpls, i) == [j \in 1..(Len(tpls) - 1) |-> IF j < i THEN tpls[j] ELSE tpls[j + 1]]

Oversize(i) ==
    /\ ~templates[i].none
    /\ (templates[i].ref_h > height \/ templates[i].ref_w > width)

\* C11: a template taller or wider than the image is skipped: the call
\* returns, and what it returns is what the same call returns on the list
\* with that template taken out.
C11_OversizeSkipped ==
    Returned =>
        \A i \in 1..Len(templates) :
            Oversize(i) =>
                match_result =
                    _detect_template_watermark(height, width, Without(templates, i),
                                               setup_raises)

\* an accepted match of one template and an oversize template after it
C11_Witness ==
    /\ Returned
    /\ match_result # <<0, 0>>
    /\ \E i \in 2..Len(templates) : Oversize(i) /\ (TopMatched(i - 1) \/ BottomMatched(i - 1))

-----------------------------------------------------------------------------
(* Properties of _detect_watermark_opencv (specification SpecDetector) *)

Detected == pc = "detector_returned"

\* the sub-detectors whose value exceeds the vote threshold
Voting == {k \in 1..3 : boundaries[k] > (IF impl = "main" THEN 40 ELSE 100)}

VotedSum == LET RECURSIVE Sum(_)
                Sum(S) == IF S = {} THEN 0
                          ELSE LET k == CHOOSE k \in S : TRUE
                               IN boundaries[k] + Sum(S \ {k})
            IN Sum(Voting)

\* the middle one of an odd number of voted values
IsMiddle(m) ==
    /\ \E k \in Voting : boundaries[k] = m
    /\ 2 * Cardinality({k \in Voting : boundaries[k] <= m}) > Cardinality(Voting)
    /\ 2 * Cardinality({k \in Voting : boundaries[k] >= m}) > Cardinality(Voting)

NoVote == detect_raises \/ Voting = {}

\* C12: the confidence is the number of sub-detectors above the vote
\* threshold and the trim is the median of the values that voted (for two
\* voters their mean); (0, 0) when none voted or the detection raised.
C12_CountAndMedian ==
    Detected =>
        IF NoVote THEN detect_result = <<0, 0>>
        ELSE /\ detect_result[2] = Cardinality(Voting)
             /\ IF Cardinality(Voting) = 2
                THEN 2 * detect_result[1] = VotedSum
                ELSE IsMiddle(detect_result[1])

\* C12, amended: as above, with the median truncated to an integer (the
\* mean of two voters is rounded down).
C12_CountAndTruncatedMedian ==
    Detected =>
        IF NoVote THEN detect_result = <<0, 0>>
        ELSE /\ detect_result[2] = Cardinality(Voting)
             /\ detect_result[2] \in 1..3
             /\ IF Cardinality(Voting) = 2
                THEN /\ 2 * detect_result[1] <= VotedSum
                     /\ VotedSum < 2 * detect_result[1] + 2
                ELSE IsMiddle(detect_result[1])

\* two voters whose mean is not an integer, and one value exactly at the
\* threshold that does not vote
C12_Witness ==
    /\ Detected /\ ~detect_raises
    /\ Cardinality(Voting) = 2
    /\ VotedSum % 2 = 1
    /\ \E k \in 1..3 : boundaries[k] = (IF impl = "main" THEN 40 ELSE 100)
    /\ detect_result[2] = 2

-----------------------------------------------------------------------------
(* Properties of the bot's compositor (specification SpecStitch) *)

Stitched == pc = "stitched"

\* C14: every section stitch_images returns is at most max_height tall.
C14_SectionsWithinMax ==
    (Stitched /\ entry = "stitch_images" /\ images # <<>>) =>
        \A k \in 1..Len(sections) : sections[k].height <= max_height

\* C16: called with no images, stitch_images and stitch_images_fallback
\* return an empty sequence.
C16_EmptyInput ==
    (Stitched /\ images = <<>>) => sections = <<>>

\* every download was invalid, so stitch_images is called with no images
\* although SmartStitch is available
C16_Witness ==
    /\ Stitched
    /\ entry = "stitch_images" /\ smartstitch = "works"
    /\ sources # <<>> /\ images = <<>>
    /\ sections = <<>>

\* |new height - h * 800 / w|, multiplied by w
ScaleError(i) ==
    LET d == resized_images[i].height * images[i].width - 800 * images[i].height
    IN IF d < 0 THEN 0 - d ELSE d

\* C18: a resized image is exactly 800 wide and its height differs from
\* h * 800 / w by less than one pixel; an image 800 wide is left as it is.
C18_ResizeWithinOnePixel ==
    Stitched =>
        \A i \in 1..Len(resized_images) :
            /\ resized_images[i].width = 800
            /\ ScaleError(i) < images[i].width
            /\ (images[i].width = 800 => resized_images[i] = images[i])

\* C18, amended: the height is h * 800 / w rounded down, or one pixel less
\* when the float product misses an exact integer: never above the exact
\* value and at most one pixel below it.
C18_ResizeAtMostOnePixel ==
    Stitched =>
        \A i \in 1..Len(resized_images) :
            /\ resized_images[i].width = 800
            /\ resized_images[i].height * images[i].width <= 800 * images[i].height
            /\ ScaleError(i) <= images[i].width
            /\ (images[i].width = 800 => resized_images[i] = images[i])

\* a 780 x 117 image comes out 119 px tall (117 * 800 / 780 = 120), next to
\* a 750 px one scaled exactly and an 800 px one left alone
C18_Witness ==
    /\ Stitched
    /\ \E i \in 1..Len(resized_images) :
          /\ images[i].width = 780 /\ images[i].height = 117
          /\ resized_images[i].height = 119
    /\ \E i \in 1..Len(resized_images) :
          images[i].width = 750 /\ resized_images[i].height = 1280
    /\ \E i \in 1..Len(resized_images) :
          images[i].width = 800 /\ resized_images[i] = images[i]

\* the three images of the scenario, all decodable
ScenarioImages ==
    << [width |-> 800, height |-> 1000, loads |-> TRUE],
       [width |-> 750, height |-> 1200, loads |-> TRUE],
       [width |-> 820, height |-> 800, loads |-> TRUE] >>

\* C19: images of heights 1000, 1200, 800 and widths 800, 750, 820 are
\* resized to heights 1000, 1280, 780, the strip is their sum, and slicing
\* at 1500 gives exactly two sections: 1500 and the remainder.
C19_Scenario ==
    (Stitched /\ images = ScenarioImages /\ max_height = 1500) =>
        /\ Len(resized_images) = 3
        /\ resized_images[1].height = 1000
        /\ resized_images[2].height = 1280
        /\ resized_images[3].height = 780
        /\ Len(sections) = 2
        /\ sections[1].height = 1500
        /\ sections[2].height = (1000 + 1280 + 780) - 1500

-----------------------------------------------------------------------------
(* Properties of _split_image (specification SpecSplitFair) *)

SplitCount == (stitched_height + target_height - 1) \div target_height

SplitShape ==
    /\ (pc = "split_loop" =>
          /\ Len(parts) <= SplitCount
          /\ current_y = Min(target_height * Len(parts), stitched_height))
    /\ (pc = "split_returned" =>
          /\ Len(parts) = SplitCount
          /\ Len(parts) >= 1
          /\ \A k \in 1..(Len(parts) - 1) : parts[k] = target_height
          /\ parts[Len(parts)] = stitched_height - target_height * (Len(parts) - 1)
          /\ parts[Len(parts)] \in 1..target_height)

\* C15: for a target height T >= 1, _split_image returns (every iteration
\* advances current_y by a full part, so the loop ends), and it returns
\* ceil(H / T) sections, at least one; all but the last are T tall and the
\* last is H - T * (ceil(H / T) - 1), between 1 and T.
C15_SplitTerminatesWithCeil ==
    /\ [] SplitShape
    /\ <> (pc = "split_returned")

\* a strip that is not a multiple of the target: three parts, the last shorter
C15_Witness ==
    /\ pc = "split_returned"
    /\ Len(parts) = 3
    /\ parts[3] < target_height

-----------------------------------------------------------------------------
(* Properties of process_images (specification SpecGui) *)

GuiReturned == pc = "returned"

RECURSIVE SumOf(_)
SumOf(hs) == IF hs = <<>> THEN 0 ELSE Head(hs) + SumOf(Tail(hs))

SavedHeights == [i \in 1..Len(saved) |-> saved[i].height]

\* the width the strip is composed at: output_width, or the widest image
ComposeWidth(imgs) == IF output_width = 0 THEN WidestOf(imgs) ELSE output_width

\* the height of an image resized on its own to width tw, rounded down
AloneHeight(img, tw) ==
    IF img.width = tw THEN img.height ELSE (img.height * tw) \div img.width

AloneHeights(imgs) ==
    [i \in 1..Len(imgs) |-> AloneHeight(imgs[i], ComposeWidth(imgs))]

\* C13: the heights of the saved sections add up to the strip height, and
\* the strip height is the sum of the heights of the images, each resized
\* to the target width (up to one pixel of rounding per image).
C13_HeightConserving ==
    (GuiReturned /\ success) =>
        /\ SumOf(SavedHeights) = stitched_height
        /\ stitched_height <= SumOf(AloneHeights(images))
        /\ stitched_height >= SumOf(AloneHeights(images)) - Len(images)

\* C17: with output_height = 0 _split_image is not called and exactly one
\* file, 01, holding the whole strip is saved; _split_image runs only for
\* output_height > 0.
C17_ZeroHeightOneSection ==
    /\ (pc \in {"split_loop", "save_parts"} => output_height > 0)
    /\ (output_height = 0 => parts = <<>> /\ current_y = 0 /\ target_height = 0)
    /\ (GuiReturned /\ success /\ output_height = 0 =>
          /\ Len(saved) = 1
          /\ saved[1].name = <<0, 1>>
          /\ saved[1].height = stitched_height
          /\ stitched_height >= 1)
    /\ (GuiReturned /\ success /\ output_height > 0 =>
          /\ parts # <<>>
          /\ SavedHeights = parts)

\* a strip taller than the 1500 px the other setting slices at, saved whole
C17_Witness ==
    /\ GuiReturned /\ success
    /\ output_height = 0
    /\ Len(images) >= 2
    /\ Len(saved) = 1
    /\ saved[1].height > 1500

\* the sources that open and decode, as images
GoodImages == Opened(SelectSeq(sources, LAMBDA x : x.kind = "ok"))

\* C20: a source that cannot be decoded is skipped: whenever some source is
\* good, the call succeeds and what it saves is the strip of the good ones.
C20_BadImageSkipped ==
    (GuiReturned /\ \E i \in 1..Len(sources) : sources[i].kind = "ok") =>
        /\ success
        /\ saved # <<>>
        /\ SumOf(SavedHeights) = StitchedHeight(GoodImages, output_width)

-----------------------------------------------------------------------------
(* Further properties of trim_watermark (specification Spec) *)

\* the matcher found a trim and the crop passes the check of line 26
TemplateAccepted ==
    /\ (template_top_trim > 0 \/ template_bottom_trim > 0)
    /\ (height - template_bottom_trim) - template_top_trim >= (6 * height) \div 10

\* C21: when the template crop is accepted, trim_watermark returns rows
\* [top_trim, height - bottom_trim) of the input and the boundary detector
\* is not even run; the pattern-based path is entered, and decides the
\* output, only when the matcher found no trim or its trim failed the 60%
\* check.
C21_TemplateFirst ==
    /\ (Done /\ exc = "none" /\ TemplateAccepted) =>
          /\ path = "template"
          /\ result = Crop(template_top_trim, height - template_bottom_trim)
          /\ top_trim = 0 /\ top_confidence = 0
          /\ bottom_trim = 0 /\ bottom_confidence = 0
    /\ (pc \in {"pattern", "pattern_check"} \/ path = "pattern") => ~TemplateAccepted

\* a template crop on both sides that keeps between 60% and 90%
C21_Witness ==
    /\ Done /\ exc = "none" /\ path = "template"
    /\ result.kind = "crop"
    /\ result.top > 0 /\ result.bottom < height
    /\ 10 * (result.bottom - result.top) < 9 * height

\* C30: in watermark_trimmer.trim_watermark the pattern-based path never
\* crops an image at most 1000 px tall: a side that qualifies fails the 90%
\* check, and the input is returned as it is.
C30_NoPatternCropUpTo1000 ==
    (impl = "watermark_trimmer" /\ height <= 1000) =>
        /\ path # "pattern"
        /\ (pc = "pattern_check" /\ (top_confidence >= 3 \/ bottom_confidence >= 3)
              /\ (crop_top > 80 \/ height - crop_bottom > 80)
              => 10 * (crop_bottom - crop_top) < 9 * height)
        /\ (Done /\ ~TemplateAccepted => result = Same)

\* a 1000 px image whose top band has three votes of more than 100 px
C30_Witness ==
    /\ Done /\ exc = "none"
    /\ impl = "watermark_trimmer" /\ height = 1000
    /\ top_confidence = 3 /\ crop_top > 100
    /\ bottom_confidence = 0
    /\ result = Same

-----------------------------------------------------------------------------
(* Further properties of _detect_template_watermark (specification        *)
(* SpecMatcher)                                                            *)

\* template i is in the list, fits the image, and is taller than a third of it
TallerThanThird(i) ==
    /\ ~templates[i].none
    /\ templates[i].ref_h <= height /\ templates[i].ref_w <= width
    /\ 3 * templates[i].ref_h > height

\* C28: both returned trims lie in 0..floor(height / 3), a template taller
\* than a third of the image contributes nothing (the result is that of
\* the list without it), and so at least height - 2 * floor(height / 3)
\* rows are left.
C28_TrimWithinThird ==
    Returned =>
        /\ match_result[1] >= 0 /\ match_result[1] <= height \div 3
        /\ match_result[2] >= 0 /\ match_result[2] <= height \div 3
        /\ height - match_result[1] - match_result[2] >= height - 2 * (height \div 3)
        /\ \A i \in 1..Len(templates) :
              TallerThanThird(i) =>
                  match_result =
                      _detect_template_watermark(height, width, Without(templates, i),
                                                 setup_raises)

\* a 600 px template on a 600 px image next to a banner that matched on
\* both sides
C28_Witness ==
    /\ Returned
    /\ match_result[1] > 0 /\ match_result[2] > 0
    /\ \E i \in 1..Len(templates) : TallerThanThird(i) /\ templates[i].ref_h = height

-----------------------------------------------------------------------------
(* Further properties of the bot's compositor (specification SpecStitch) *)

SomeUndecodable == \E i \in 1..Len(images) : ~images[i].loads

\* C23: stitch_images never raises; when the content-aware path fails (the
\* seam detector cannot be imported, or a step raises) it returns what
\* stitch_images_fallback returns for the same images and max_height, and
\* an empty list when the fallback fails too.
C23_StitchFallsBack ==
    /\ outcome # "raised"
    /\ (Stitched /\ entry = "stitch_images") =>
          /\ outcome = "returned"
          /\ (images # <<>> /\ (smartstitch = "unavailable" \/ SomeUndecodable)
                => sections = stitch_images_fallback(images, max_height))
          /\ (SomeUndecodable => sections = <<>>)

\* the detector is unavailable and the fallback builds two sections
C23_Witness ==
    /\ Stitched /\ entry = "stitch_images"
    /\ smartstitch = "unavailable"
    /\ outcome = "returned"
    /\ Len(images) = 3 /\ Len(sections) = 2

RECURSIVE Flatten(_)
Flatten(secs) == IF secs = <<>> THEN <<>> ELSE Head(secs).members \o Flatten(Tail(secs))

RECURSIVE MembersHeight(_)
MembersHeight(m) ==
    IF m = <<>> THEN 0 ELSE resized_images[Head(m)].height + MembersHeight(Tail(m))

\* the sections are consecutive runs of the resized images, in input order,
\* each image in exactly one of them, none empty
WholeImagesInOrder ==
    /\ Flatten(sections) = [i \in 1..Len(images) |-> i]
    /\ \A k \in 1..Len(sections) :
          /\ sections[k].members # <<>>
          /\ sections[k].height = MembersHeight(sections[k].members)

\* C29: stitch_images_fallback never splits, drops, duplicates or reorders
\* an image.
C29_WholeImagesInOrder ==
    (Stitched /\ entry = "stitch_images_fallback" /\ images # <<>>) => WholeImagesInOrder

\* what does hold: the same, for lists in which every image can be decoded
C29_WhenAllDecode ==
    (Stitched /\ entry = "stitch_images_fallback" /\ images # <<>> /\ ~SomeUndecodable)
        => WholeImagesInOrder

-----------------------------------------------------------------------------
(* the sub-detectors *)

SubReturned(e) == pc = "sub_returned" /\ entry = e

\* the contours the claim calls qualifying: width > 50 and height > 15
QualifyingContours ==
    {k \in 1..Len(contours) : contours[k].w > 50 /\ contours[k].h > 15}

\* C22: watermark_trimmer._detect_text_boundary returns 0 when fewer than 5
\* components are wider than 50 and taller than 15; otherwise, at 'top', the
\* largest y + h and, at 'bottom', the band height minus the smallest y, both
\* taken over the qualifying components only.
C22_TextBoundaryExtent ==
    (SubReturned("_detect_text_boundary") /\ impl = "watermark_trimmer") =>
        IF Cardinality(QualifyingContours) < 5
        THEN sub_result = 0
        ELSE IF position = "top"
        THEN /\ \E k \in QualifyingContours :
                    sub_result = contours[k].y + contours[k].h
             /\ \A k \in QualifyingContours :
                    contours[k].y + contours[k].h <= sub_result
        ELSE /\ \E k \in QualifyingContours :
                    sub_result = region_height - contours[k].y
             /\ \A k \in QualifyingContours :
                    region_height - contours[k].y <= sub_result

\* five qualifying components, and a component that does not qualify
\* reaching further inward than all of them
C22_Witness ==
    /\ SubReturned("_detect_text_boundary") /\ impl = "watermark_trimmer"
    /\ position = "top"
    /\ Cardinality(QualifyingContours) = 5
    /\ \E k \in 1..Len(contours) :
          /\ k \notin QualifyingContours
          /\ contours[k].y + contours[k].h > sub_result
    /\ sub_result > 0

\* the rows the reference detector stops at: mean brightness below 150
DarkRows == {k \in 1..Len(rows) : rows[k].mean < 150}

\* the reference detector: the first dark row met from the outer edge,
\* reported as the scanner reports a row (rows above it at 'top', rows from
\* it to the band's end at 'bottom'), 0 when no row is dark
ReferenceColorBoundary ==
    IF DarkRows = {} THEN 0
    ELSE IF position = "top"
    THEN (CHOOSE k \in DarkRows : \A j \in DarkRows : k <= j) - 1
    ELSE Len(rows) - (CHOOSE k \in DarkRows : \A j \in DarkRows : j <= k) + 1

\* C26: in watermark_trimmer._detect_color_boundary the uniformity and
\* near-white tests never change the result: for every band the value
\* returned is that of the reference detector, which looks at the rows' mean
\* brightness only.
C26_UniformityTestsInert ==
    (SubReturned("_detect_color_boundary") /\ impl = "watermark_trimmer") =>
        sub_result = ReferenceColorBoundary

\* a near-white row that is not uniform is passed over, and the scan stops
\* at a dark row that is uniform
C26_Witness ==
    /\ SubReturned("_detect_color_boundary") /\ impl = "watermark_trimmer"
    /\ position = "top"
    /\ Len(rows) >= 2
    /\ rows[1].mean > 250 /\ rows[1].std >= 2
    /\ rows[2].mean < 150 /\ rows[2].std < 2
    /\ sub_result = 1

\* the vertical mirror image of a band
Mirror(q) == [k \in 1..Len(q) |-> q[Len(q) + 1 - k]]

\* C27: mirror symmetry of the row scanners: what _detect_edge_boundary and
\* _detect_color_boundary return for a band at 'top' is what they return
\* for the band's vertical mirror image at 'bottom'.
C27_MirrorSymmetry ==
    /\ (SubReturned("_detect_edge_boundary") /\ impl = "watermark_trimmer"
           /\ position = "top") =>
          sub_result = _detect_edge_boundary(impl, Mirror(rows), "bottom")
    /\ (SubReturned("_detect_color_boundary") /\ impl = "watermark_trimmer"
           /\ position = "top") =>
          sub_result = _detect_color_boundary(impl, Mirror(rows), "bottom")

-----------------------------------------------------------------------------
(* process_chapter's part loop *)

\* C24: process_chapter fetches at most min(expected_total_parts + 1,
\* MAX_PARTS) part pages per chapter: at most one part beyond the detected
\* total and never more than MAX_PARTS.
C24_PartPagesBounded ==
    page_requests <= Min(expected_total_parts + 1, 20)

\* the loop ends for every sequence of page responses
C24_LoopTerminates == <>(pc = "chapter_returned")

\* never more than MAX_PARTS pages, and never more than two beyond the total
C24_AtMostMaxParts ==
    page_requests <= Min(expected_total_parts + 2, 20)

-----------------------------------------------------------------------------
(* process_series and the series state *)

ChaptersIn(q) == {q[k] : k \in 1..Len(q)}

\* C25: a chapter whose processing collected at least one image is recorded
\* as last_processed_chapter, whether or not stitching and upload succeeded,
\* and no later call of get_new_chapters returns it (so it is not processed
\* again); a chapter from which no image was collected is not recorded.
C25_ProcessedOnce ==
    [][/\ (pc = "process_single" /\ processing_success') =>
              last_processed_chapter' = chapter_number
       /\ (pc \in {"count_remaining", "series_idle"} /\ processing_success) =>
              chapter_number \notin ChaptersIn(new_chapters')
       /\ (pc = "process_single" /\ ~processing_success') =>
              last_processed_chapter' = last_processed_chapter]_vars

\* the part that holds: only a chapter with images collected is recorded
C25_NoImagesNotRecorded ==
    [][(pc = "process_single" /\ ~processing_success') =>
           last_processed_chapter' = last_processed_chapter]_vars


====
